---- MODULE Spec2Model ----
(***************************************************************************)
(* Effort estimation scripts of github-utils:                              *)
(*   scripts/estimate_pr_time.py            session clustering of commits  *)
(*   scripts/get_completed_issues_with_time.py  business hours, timing     *)
(*   scripts/estimate_pr_time_fallback.py   metadata fallback estimate     *)
(*                                                                         *)
(* Units.  Commit timestamps are whole minutes.  estimated_hours is held   *)
(* in tenths of an hour (25 stands for 2.5).  A datetime is a calendar day *)
(* (day 0 is a Monday), the minute of that day and the microseconds within *)
(* that minute, in the reference zone and away from any daylight-saving    *)
(* change.  A float of hours returned by calculate_business_hours is held  *)
(* as the exact duration it stands for, in minutes and microseconds; a     *)
(* float rounded to 2 decimals is held in hundredths of an hour, in a      *)
(* record, so that it can stand where None can.  A string that the code    *)
(* searches is a sequence of one-character strings.  The                   *)
(* timestamps of the GitHub API are datetimes in UTC.                      *)
(***************************************************************************)
EXTENDS Integers, Sequences, FiniteSets, TLC

VARIABLES
    commits,            \* the caller's commit list, passed to estimate_time_from_commits
    commits0,           \* the caller's commit list as it was before the call
    shuffled,           \* a second caller's list: a permutation of commits0
    shuffled0,          \* that second list as it was before its call
    estimate,           \* what estimate_time_from_commits(commits) returned
    estimate_shuffled,  \* what estimate_time_from_commits(shuffled) returned
    start_dt,           \* first argument of calculate_business_hours
    end_dt,             \* second argument of calculate_business_hours
    business_hours,     \* what calculate_business_hours(start_dt, end_dt) returned
    swapped_hours,      \* what calculate_business_hours(end_dt, start_dt) returned
    day_hours,          \* the hours each calendar day added to business_hours
    later_dt,           \* a second end for the same start, not before end_dt
    later_hours,        \* what calculate_business_hours(start_dt, later_dt) returned
    issue,              \* the issue given to analyze_issue_timing
    timeline_response,  \* what the timeline endpoint answers, page by page: status and events
    events_response,    \* what the issue-events endpoint answers, page by page
    timing,             \* what analyze_issue_timing(issue) returned
    scan,               \* analyze_issue_timing's locals when it returned
    pr,                 \* the PR record given to estimate_time_from_metadata
    metadata_estimate,  \* what estimate_time_from_metadata(pr) returned
    applied             \* estimate_time_from_metadata's locals when it returned

commitVars == <<commits, commits0, shuffled, shuffled0, estimate, estimate_shuffled>>
businessVars == <<start_dt, end_dt, business_hours, swapped_hours, day_hours,
                  later_dt, later_hours>>
timingVars == <<issue, timeline_response, events_response, timing, scan>>
metadataVars == <<pr, metadata_estimate, applied>>
vars == <<commitVars, businessVars, timingVars, metadataVars>>

\* "not called yet"
NoResult == [returned |-> FALSE]

\* Python's None
None == [none |-> TRUE]

\* the state of a script that is not the one running
CommitsUnused ==
    /\ commits = <<>>
    /\ commits0 = <<>>
    /\ shuffled = <<>>
    /\ shuffled0 = <<>>
    /\ estimate = NoResult
    /\ estimate_shuffled = NoResult

BusinessUnused ==
    /\ start_dt = None
    /\ end_dt = None
    /\ business_hours = NoResult
    /\ swapped_hours = NoResult
    /\ day_hours = <<>>
    /\ later_dt = None
    /\ later_hours = NoResult

TimingUnused ==
    /\ issue = None
    /\ timeline_response = None
    /\ events_response = None
    /\ timing = NoResult
    /\ scan = NoResult

MetadataUnused ==
    /\ pr = None
    /\ metadata_estimate = NoResult
    /\ applied = NoResult

-----------------------------------------------------------------------------
(* Bounds of the model *)

MaxCommits == 3

\* commit timestamps, in minutes: gaps of 30, 33, 117, 120, 150, 170, 200, ...
CommitTimes == {0, 30, 33, 150, 200, 350}

\* calendar days 0..MaxDay: Monday of one week to Monday of the next
MaxDay == 7

\* times of day, in minutes: 05:00, 07:00, 08:00, 18:00, 19:00, 21:30
TimesOfDay == {300, 420, 480, 1080, 1140, 1290}

\* events in the timeline of an issue
MaxEvents == 2

\* fragments a PR title is put together from
MaxFragments == 3

-----------------------------------------------------------------------------
(* scripts/get_completed_issues_with_time.py: business hours *)

MicrosPerMinute == 60000000

Datetime(date, minute, micro) == [date |-> date, minute |-> minute, micro |-> micro]

\* a < b on datetimes
Earlier(a, b) ==
    \/ a.date < b.date
    \/ a.date = b.date /\ a.minute < b.minute
    \/ a.date = b.date /\ a.minute = b.minute /\ a.micro < b.micro

\* max(a, b) written as min(a, b)
EarlierOfTwo(a, b) == IF Earlier(b, a) THEN b ELSE a

\* min(a, b) written as max(a, b)
LaterOfTwo(a, b) == IF Earlier(a, b) THEN b ELSE a

\* max(a, b) and min(a, b) on datetimes
MaxDt(a, b) == IF Earlier(a, b) THEN b ELSE a
MinDt(a, b) == IF Earlier(b, a) THEN b ELSE a

\* dt.replace(hour=.., minute=.., second=.., microsecond=..)
ReplaceTime(dt, hour, minute, second, microsecond) ==
    Datetime(dt.date, 60 * hour + minute, 1000000 * second + microsecond)

\* a duration (b - a, or a float of hours), exact
Duration(minutes, micro) == [minutes |-> minutes, micro |-> micro]
Hours(h) == Duration(60 * h, 0)
ZeroHours == Duration(0, 0)

\* b - a for a <= b
Elapsed(a, b) ==
    LET minutes == 1440 * (b.date - a.date) + (b.minute - a.minute)
    IN  IF b.micro >= a.micro THEN Duration(minutes, b.micro - a.micro)
        ELSE Duration(minutes - 1, b.micro - a.micro + MicrosPerMinute)

\* total_hours += hours
AddHours(total_hours, hours) ==
    LET micro == total_hours.micro + hours.micro
    IN  IF micro >= MicrosPerMinute
        THEN Duration(total_hours.minutes + hours.minutes + 1, micro - MicrosPerMinute)
        ELSE Duration(total_hours.minutes + hours.minutes, micro)

\* dt.weekday() < 5, Monday = 0
is_business_day(dt) == dt.date % 7 < 5

\* the window of a day, extended from 6pm on
WindowExtendedFromSix(dt) ==
    [start |-> ReplaceTime(dt, 7, 0, 0, 0),
     end |-> IF dt.minute \div 60 >= 18
             THEN ReplaceTime(dt, 23, 59, 59, 999999)
             ELSE ReplaceTime(dt, 19, 0, 0, 0)]

\* the window of a day, extended whatever the hour of dt
WindowAlwaysExtended(dt) ==
    [start |-> ReplaceTime(dt, 7, 0, 0, 0),
     end |-> ReplaceTime(dt, 23, 59, 59, 999999)]

\* get_business_hours_in_day(dt): (start, end)
get_business_hours_in_day(dt) ==
    [start |-> ReplaceTime(dt, 7, 0, 0, 0),
     end |-> IF dt.minute \div 60 >= 19
             THEN ReplaceTime(dt, 23, 59, 59, 999999)
             ELSE ReplaceTime(dt, 19, 0, 0, 0)]

\* one pass of the while loop with the 4 hours added for every weekend day
DayHoursWeekendFlat(current_dt, first_dt, last_dt) ==
    IF is_business_day(current_dt)
    THEN LET biz == get_business_hours_in_day(current_dt)
             day_start == IF current_dt.date = first_dt.date
                          THEN MaxDt(current_dt, biz.start) ELSE biz.start
             day_end == IF current_dt.date = last_dt.date
                        THEN MinDt(last_dt, biz.end) ELSE biz.end
         IN  IF Earlier(day_start, day_end) THEN Elapsed(day_start, day_end)
             ELSE ZeroHours
    ELSE Hours(4)

\* one pass of the while loop without the test "if day_start < day_end"
DayHoursUnguarded(current_dt, first_dt, last_dt) ==
    IF is_business_day(current_dt)
    THEN LET biz == get_business_hours_in_day(current_dt)
             day_start == IF current_dt.date = first_dt.date
                          THEN MaxDt(current_dt, biz.start) ELSE biz.start
             day_end == IF current_dt.date = last_dt.date
                        THEN MinDt(last_dt, biz.end) ELSE biz.end
         IN  Elapsed(day_start, day_end)
    ELSE IF current_dt.date = first_dt.date \/ current_dt.date = last_dt.date
         THEN Hours(4)
         ELSE ZeroHours

\* what one pass of the while loop adds to total_hours, on the day of current_dt
DayHours(current_dt, first_dt, last_dt) ==
    IF is_business_day(current_dt)
    THEN LET biz == get_business_hours_in_day(current_dt)
             day_start == IF current_dt.date = first_dt.date
                          THEN MaxDt(current_dt, biz.start) ELSE biz.start
             day_end == IF current_dt.date = last_dt.date
                        THEN MinDt(last_dt, biz.end) ELSE biz.end
         IN  IF Earlier(day_start, day_end) THEN Elapsed(day_start, day_end)
             ELSE ZeroHours
    ELSE IF current_dt.date = first_dt.date \/ current_dt.date = last_dt.date
         THEN Hours(4)
         ELSE ZeroHours

\* the loop "while current_dt.date() <= end_dt.date()"
RECURSIVE BusinessLoop(_, _, _, _, _)
BusinessLoop(current_dt, first_dt, last_dt, total_hours, days) ==
    IF current_dt.date <= last_dt.date
    THEN LET hours == DayHours(current_dt, first_dt, last_dt)
         IN  BusinessLoop(Datetime(current_dt.date + 1, 0, 0), first_dt, last_dt,
                          AddHours(total_hours, hours),
                          Append(days, [date |-> current_dt.date, hours |-> hours]))
    ELSE [total_hours |-> total_hours, days |-> days]

\* calculate_business_hours without the swap of its arguments
CalculateUnswapped(a, b) ==
    IF a = None \/ b = None THEN [total_hours |-> ZeroHours, days |-> <<>>]
    ELSE BusinessLoop(a, a, b, ZeroHours, <<>>)

\* calculate_business_hours(a, b): total_hours, and what each day added
calculate_business_hours(a, b) ==
    IF a = None \/ b = None THEN [total_hours |-> ZeroHours, days |-> <<>>]
    ELSE LET first_dt == IF Earlier(b, a) THEN b ELSE a
             last_dt == IF Earlier(b, a) THEN a ELSE b
         IN  BusinessLoop(first_dt, first_dt, last_dt, ZeroHours, <<>>)

Instants == { Datetime(d, t, 0) : d \in 0..MaxDay, t \in TimesOfDay }

InitBusiness ==
    /\ start_dt \in Instants \cup {None}
    /\ end_dt \in Instants \cup {None}
    /\ business_hours = NoResult
    /\ swapped_hours = NoResult
    /\ day_hours = <<>>
    /\ later_dt = None
    /\ later_hours = NoResult
    /\ CommitsUnused
    /\ TimingUnused
    /\ MetadataUnused

\* business_hours = calculate_business_hours(start_dt, end_dt)
CalculateBusinessHours ==
    /\ business_hours = NoResult
    /\ LET call == calculate_business_hours(start_dt, end_dt)
       IN  /\ business_hours' = call.total_hours
           /\ day_hours' = call.days
    /\ UNCHANGED <<start_dt, end_dt, swapped_hours, later_dt, later_hours,
                   commitVars, timingVars, metadataVars>>

\* the same call with the arguments the other way round
CalculateSwapped ==
    /\ swapped_hours = NoResult
    /\ swapped_hours' = calculate_business_hours(end_dt, start_dt).total_hours
    /\ UNCHANGED <<start_dt, end_dt, business_hours, day_hours, later_dt, later_hours,
                   commitVars, timingVars, metadataVars>>

NextBusiness == CalculateBusinessHours \/ CalculateSwapped

SpecBusiness == InitBusiness /\ [][NextBusiness]_vars

\* one start and two ends in time order, as analyze_issue_timing measures the
\* first response, the assignment and the closing from the creation
InitOrdered ==
    /\ start_dt \in Instants
    /\ end_dt \in Instants
    /\ later_dt \in Instants
    /\ ~Earlier(end_dt, start_dt)
    /\ ~Earlier(later_dt, end_dt)
    /\ business_hours = NoResult
    /\ swapped_hours = NoResult
    /\ day_hours = <<>>
    /\ later_hours = NoResult
    /\ CommitsUnused
    /\ TimingUnused
    /\ MetadataUnused

\* later_hours = calculate_business_hours(start_dt, later_dt)
CalculateLater ==
    /\ later_hours = NoResult
    /\ later_hours' = calculate_business_hours(start_dt, later_dt).total_hours
    /\ UNCHANGED <<start_dt, end_dt, business_hours, swapped_hours, day_hours, later_dt,
                   commitVars, timingVars, metadataVars>>

NextOrdered == CalculateBusinessHours \/ CalculateLater

SpecOrdered == InitOrdered /\ [][NextOrdered]_vars

-----------------------------------------------------------------------------
(* scripts/get_completed_issues_with_time.py: issue timing *)

\* America/Los_Angeles on standard time: UTC-8, in minutes
PacificOffsetMinutes == 480

\* parse_github_datetime(date_str): None, or the UTC instant as Pacific wall time
parse_github_datetime(date_str) ==
    IF date_str = None THEN None
    ELSE LET total == 1440 * date_str.date + date_str.minute - PacificOffsetMinutes
         IN  Datetime(total \div 1440, total % 1440, date_str.micro)

\* a float with 2 decimals, in hundredths of an hour
Hundredths(n) == [hundredths |-> n]

\* round(hours, 2); hours = (minutes + micro/6e7) / 60
\* (no duration of the model lies halfway between two hundredths)
RoundHundredths(hours) ==
    LET part == 12000000 * ((5 * hours.minutes) % 3) + hours.micro
        whole == (5 * hours.minutes) \div 3 + part \div 36000000
    IN  Hundredths(IF 2 * (part % 36000000) >= 36000000 THEN whole + 1 ELSE whole)

\* "round(x, 2) if x else None": None and 0.0 are both falsy
RoundedIfTruthy(hours) ==
    IF hours # None /\ hours # ZeroHours THEN RoundHundredths(hours) ELSE None

\* per_page: the events of a full page.  The 100 of the code is scaled to the
\* longest page of the model, so that a full page, and the request for the page
\* after it, can happen.
per_page == MaxEvents

\* what the endpoint answers for a page past the last one that holds events
EmptyPage == [status |-> 200, data |-> <<>>]

\* the loop "while True" that on 403 or 404 returns the events gathered so far
RECURSIVE FetchPagesKeepsEvents(_, _, _)
FetchPagesKeepsEvents(answers, page, events) ==
    LET response == IF page \in DOMAIN answers THEN answers[page] ELSE EmptyPage
    IN  IF response.status \in {403, 404} THEN events
        ELSE IF response.data = <<>> THEN events
        ELSE IF Len(response.data) < per_page THEN events \o response.data
        ELSE FetchPagesKeepsEvents(answers, page + 1, events \o response.data)

\* the loop "while True" of fetch_issue_timeline / fetch_issue_events from a
\* page on, with the events gathered so far; answers[page] is what the endpoint
\* answers for that page
RECURSIVE FetchPages(_, _, _)
FetchPages(answers, page, events) ==
    LET response == IF page \in DOMAIN answers THEN answers[page] ELSE EmptyPage
    IN  IF response.status \in {403, 404} THEN <<>>
        ELSE IF response.data = <<>> THEN events
        ELSE IF Len(response.data) < per_page THEN events \o response.data
        ELSE FetchPages(answers, page + 1, events \o response.data)

\* fetch_issue_timeline / fetch_issue_events: the events of all pages, or the
\* empty list when a page is answered with 403 or 404
FetchEvents(answers) == FetchPages(answers, 1, <<>>)

\* the loop without the tests "and not first_response", "and not assigned_at",
\* "and not labeled_at": every matching event overwrites the one before
RECURSIVE ScanEventsKeepLast(_, _, _, _, _, _)
ScanEventsKeepLast(all_events, i, author, first_response, assigned_at, labeled_at) ==
    IF i > Len(all_events)
    THEN [first_response |-> first_response, assigned_at |-> assigned_at,
          labeled_at |-> labeled_at]
    ELSE LET event == all_events[i]
             event_type == event.event
             event_time == parse_github_datetime(event.created_at)
         IN  ScanEventsKeepLast(all_events, i + 1, author,
                 IF event_type \in {"commented", "comment"} /\ event.actor # author
                 THEN event_time ELSE first_response,
                 IF event_type = "assigned" THEN event_time ELSE assigned_at,
                 IF event_type = "labeled" THEN event_time ELSE labeled_at)

\* the loop "for event in all_events", from the i-th event on
RECURSIVE ScanEvents(_, _, _, _, _, _)
ScanEvents(all_events, i, author, first_response, assigned_at, labeled_at) ==
    IF i > Len(all_events)
    THEN [first_response |-> first_response, assigned_at |-> assigned_at,
          labeled_at |-> labeled_at]
    ELSE LET event == all_events[i]
             event_type == event.event
             event_time == parse_github_datetime(event.created_at)
         IN  ScanEvents(all_events, i + 1, author,
                 IF /\ event_type \in {"commented", "comment"}
                    /\ first_response = None
                    /\ event.actor # author
                 THEN event_time ELSE first_response,
                 IF event_type = "assigned" /\ assigned_at = None
                 THEN event_time ELSE assigned_at,
                 IF event_type = "labeled" /\ labeled_at = None
                 THEN event_time ELSE labeled_at)

\* analyze_issue_timing(issue): the returned dict (result) and the locals
analyze_issue_timing(an_issue, primary, secondary) ==
    LET created_at == parse_github_datetime(an_issue.created_at)
        closed_at == parse_github_datetime(an_issue.closed_at)
        timeline == FetchEvents(primary)
        fetched == timeline = <<>>
        events == IF fetched THEN FetchEvents(secondary) ELSE <<>>
        hours == calculate_business_hours(created_at, closed_at).total_hours
        calendar_days == IF created_at # None /\ closed_at # None
                         THEN (1440 * (closed_at.date - created_at.date)
                               + closed_at.minute - created_at.minute) \div 1440
                         ELSE 0
        all_events == timeline \o events
        found == ScanEvents(all_events, 1, an_issue.user, None, None, None)
        time_to_first_response ==
            IF found.first_response # None
            THEN calculate_business_hours(created_at, found.first_response).total_hours
            ELSE None
        time_to_assignment ==
            IF found.assigned_at # None
            THEN calculate_business_hours(created_at, found.assigned_at).total_hours
            ELSE None
    IN  [result |->
            [business_hours |-> RoundHundredths(hours),
             calendar_days |-> calendar_days,
             time_to_first_response_hours |-> RoundedIfTruthy(time_to_first_response),
             time_to_assignment_hours |-> RoundedIfTruthy(time_to_assignment)],
         locals |->
            [timeline |-> timeline,
             events |-> events,
             all_events |-> all_events,
             events_fetched |-> fetched,
             first_response |-> found.first_response,
             assigned_at |-> found.assigned_at,
             labeled_at |-> found.labeled_at,
             time_to_first_response |-> time_to_first_response,
             time_to_assignment |-> time_to_assignment]]

Author == "alice"

\* issue created Mon 13:00 UTC (05:00 Pacific) or Mon 17:00 UTC (09:00 Pacific),
\* closed Tue 01:00 UTC (Mon 17:00 Pacific)
Issues ==
    { [created_at |-> Datetime(0, m, 0), closed_at |-> Datetime(1, 60, 0), user |-> Author]
      : m \in {13 * 60, 17 * 60} }

\* events at Mon 14:00 UTC (06:00 Pacific) or Mon 18:30 UTC (10:30 Pacific)
EventKinds ==
    { [event |-> "commented", actor |-> Author],
      [event |-> "commented", actor |-> "bob"],
      [event |-> "assigned", actor |-> "bob"],
      [event |-> "labeled", actor |-> "bob"] }

Events ==
    { [event |-> k.event, actor |-> k.actor, created_at |-> Datetime(0, m, 0)]
      : k \in EventKinds, m \in {14 * 60, 18 * 60 + 30} }

EventLists(max) == UNION { [1..n -> Events] : n \in 0..max }

\* the answers of the timeline endpoint: a first page, and after a full first
\* page a second one, answered with a status of its own and short of full
FirstPages == [status : {200, 403, 404}, data : EventLists(MaxEvents)]
LaterPages == [status : {200, 404}, data : EventLists(1)]
TimelineAnswers ==
    { <<first>> : first \in { p \in FirstPages : p.status # 200 \/ Len(p.data) < per_page } }
    \cup { <<first, second>> :
             first \in { p \in FirstPages : p.status = 200 /\ Len(p.data) = per_page },
             second \in LaterPages }

\* the answers of the issue-events endpoint: one page
EventsAnswers == { <<only>> : only \in [status : {200, 404}, data : EventLists(1)] }

InitTiming ==
    /\ issue \in Issues
    /\ timeline_response \in TimelineAnswers
    /\ events_response \in EventsAnswers
    /\ timing = NoResult
    /\ scan = NoResult
    /\ CommitsUnused
    /\ BusinessUnused
    /\ MetadataUnused

\* timing = analyze_issue_timing(issue, repo, token)
AnalyzeIssueTiming ==
    /\ timing = NoResult
    /\ LET call == analyze_issue_timing(issue, timeline_response, events_response)
       IN  /\ timing' = call.result
           /\ scan' = call.locals
    /\ UNCHANGED <<issue, timeline_response, events_response, commitVars, businessVars,
                   metadataVars>>

NextTiming == AnalyzeIssueTiming

SpecTiming == InitTiming /\ [][NextTiming]_vars

-----------------------------------------------------------------------------
(* scripts/estimate_pr_time_fallback.py *)

\* a key the PR dict does not have
Absent == "(absent)"

DEFAULT_DEV_HOURS ==
    [Feature        |-> [Small |-> 12, Medium |-> 20, Large |-> 32],
     Bug_Fix        |-> [Small |-> 4,  Medium |-> 8,  Large |-> 12],
     Enhancement    |-> [Small |-> 6,  Medium |-> 10, Large |-> 16],
     Infrastructure |-> [Small |-> 4,  Medium |-> 8,  Large |-> 16],
     Refactoring    |-> [Small |-> 8,  Medium |-> 12, Large |-> 20],
     Testing        |-> [Small |-> 6,  Medium |-> 12, Large |-> 24],
     UI_Enhancement |-> [Small |-> 4,  Medium |-> 8,  Large |-> 12],
     Documentation  |-> [Small |-> 2,  Medium |-> 4,  Large |-> 8],
     Security       |-> [Small |-> 4,  Medium |-> 8,  Large |-> 12],
     Performance    |-> [Small |-> 6,  Medium |-> 10, Large |-> 16],
     Database       |-> [Small |-> 6,  Medium |-> 10, Large |-> 16],
     Maintenance    |-> [Small |-> 3,  Medium |-> 5,  Large |-> 8],
     Hotfix         |-> [Small |-> 4,  Medium |-> 6,  Large |-> 10],
     Development    |-> [Small |-> 6,  Medium |-> 10, Large |-> 16]]

\* pr.get(key, default)
Get(dict, key, default) == IF dict[key] = Absent THEN default ELSE dict[key]

\* the lookup with the Small hours of the row for a complexity it does not hold
BaseHoursDefaultSmall(category, complexity) ==
    LET row == IF category \in DOMAIN DEFAULT_DEV_HOURS
               THEN DEFAULT_DEV_HOURS[category]
               ELSE DEFAULT_DEV_HOURS["Maintenance"]
    IN  IF complexity \in DOMAIN row THEN row[complexity] ELSE row["Small"]

\* DEFAULT_DEV_HOURS.get(category, DEFAULT_DEV_HOURS["Maintenance"]).get(complexity, 6)
BaseHours(category, complexity) ==
    LET row == IF category \in DOMAIN DEFAULT_DEV_HOURS
               THEN DEFAULT_DEV_HOURS[category]
               ELSE DEFAULT_DEV_HOURS["Maintenance"]
    IN  IF complexity \in DOMAIN row THEN row[complexity] ELSE 6

UpperCase == <<"A", "B", "C", "D", "E", "F", "G", "H", "I", "J", "K", "L", "M",
               "N", "O", "P", "Q", "R", "S", "T", "U", "V", "W", "X", "Y", "Z">>
LowerCase == <<"a", "b", "c", "d", "e", "f", "g", "h", "i", "j", "k", "l", "m",
               "n", "o", "p", "q", "r", "s", "t", "u", "v", "w", "x", "y", "z">>

\* str.lower()
LowerChar(c) ==
    IF \E i \in DOMAIN UpperCase : UpperCase[i] = c
    THEN LowerCase[CHOOSE i \in DOMAIN UpperCase : UpperCase[i] = c]
    ELSE c

Lower(text) == [i \in DOMAIN text |-> LowerChar(text[i])]

\* "word in text": word occurs in text as a substring
Contains(text, word) ==
    \E i \in 1..(Len(text) - Len(word) + 1) :
        SubSeq(text, i, i + Len(word) - 1) = word

REFACTOR == <<"r", "e", "f", "a", "c", "t", "o", "r">>
RESTRUCTURE == <<"r", "e", "s", "t", "r", "u", "c", "t", "u", "r", "e">>
TEST == <<"t", "e", "s", "t">>
TESTING == <<"t", "e", "s", "t", "i", "n", "g">>
FIX == <<"f", "i", "x">>
HOTFIX == <<"h", "o", "t", "f", "i", "x">>
UPDATE == <<"u", "p", "d", "a", "t", "e">>
ENHANCE == <<"e", "n", "h", "a", "n", "c", "e">>
MVP == <<"m", "v", "p">>
WORKING == <<"w", "o", "r", "k", "i", "n", "g">>
MID == <<"m", "i", "d">>

\* the rule for "fix" without the look for "hotfix"
FixRuleIgnoresHotfix(title) == Contains(title, FIX)

\* "fix" in title and "hotfix" not in title
FixRuleApplies(title) == Contains(title, FIX) /\ ~Contains(title, HOTFIX)

\* multiplier = factor/10 in place of multiplier *= factor/10
MultiplyOverwrites(multiplier, applies, factor) ==
    IF applies
    THEN [num |-> factor, den |-> 10,
          factors |-> Append(multiplier.factors, factor)]
    ELSE multiplier

\* multiplier *= factor/10; the multiplier is held exactly, as num / den, along
\* with the factors applied so far
Multiply(multiplier, applies, factor) ==
    IF applies
    THEN [num |-> multiplier.num * factor, den |-> multiplier.den * 10,
          factors |-> Append(multiplier.factors, factor)]
    ELSE multiplier

\* lines 161-174: the multiplier for a lower-cased title
TitleMultiplier(title) ==
    LET m0 == [num |-> 1, den |-> 1, factors |-> <<>>]
        m1 == Multiply(m0, Contains(title, REFACTOR) \/ Contains(title, RESTRUCTURE), 12)
        m2 == Multiply(m1, Contains(title, TEST) \/ Contains(title, TESTING), 11)
        m3 == Multiply(m2, FixRuleApplies(title), 9)
        m4 == Multiply(m3, Contains(title, UPDATE) \/ Contains(title, ENHANCE), 11)
        m5 == Multiply(m4, Contains(title, MVP), 13)
        m6 == Multiply(m5, Contains(title, WORKING) \/ Contains(title, MID), 7)
    IN  m6

\* round(base_hours * multiplier, 1), in tenths of an hour.  The product is a
\* float; with the hours of DEFAULT_DEV_HOURS and the six factors it lies halfway
\* between two tenths only for 5 hours and two factors, and there the float lies
\* below the halfway point for 0.9 * 0.7 and 1.3 * 0.7 and above it for the rest.
RoundEstimate(base_hours, multiplier) ==
    LET n == 10 * base_hours * multiplier.num
        q == n \div multiplier.den
        r == n % multiplier.den
    IN  IF 2 * r < multiplier.den THEN q
        ELSE IF 2 * r > multiplier.den THEN q + 1
        ELSE IF multiplier.num \in {63, 91} THEN q ELSE q + 1

\* round(estimated_hours / 2): to the nearest integer, halves to the even one
RoundHalfHours(estimated_hours) ==
    LET q == estimated_hours \div 20
        r == estimated_hours % 20
    IN  IF r < 10 THEN q
        ELSE IF r > 10 THEN q + 1
        ELSE IF q % 2 = 0 THEN q ELSE q + 1

\* the dict of estimate_time_from_metadata with the tags of a commit estimate
TaggedAsCommits(estimated_hours, sessions, estimated_commits) ==
    [estimated_hours |-> estimated_hours,
     sessions |-> sessions,
     commits |-> estimated_commits,
     method |-> "commit_based",
     confidence |-> "high"]

\* lines 184-190: the returned dict
MetadataResult(estimated_hours, sessions, estimated_commits) ==
    [estimated_hours |-> estimated_hours,
     sessions |-> sessions,
     commits |-> estimated_commits,
     method |-> "metadata_based",
     confidence |-> "low"]

\* estimate_time_from_metadata(pr): the returned dict (result) and the locals
estimate_time_from_metadata(a_pr) ==
    LET category == Get(a_pr, "category", "Maintenance")
        complexity == Get(a_pr, "complexity", "Small")
        base_hours == BaseHours(category, complexity)
        title == Lower(a_pr.title)
        multiplier == TitleMultiplier(title)
        estimated_hours == RoundEstimate(base_hours, multiplier)
        sessions == IF complexity = "Small" THEN 1
                    ELSE IF complexity = "Medium" THEN 2
                    ELSE IF complexity = "Large" THEN 3
                    ELSE 1
        half == RoundHalfHours(estimated_hours)
        estimated_commits == IF half > 1 THEN half ELSE 1
    IN  [result |-> MetadataResult(estimated_hours, sessions, estimated_commits),
         locals |-> [base_hours |-> base_hours, title |-> title,
                     factors |-> multiplier.factors]]

\* "Hot", "fix", ": fix login", "mvp", "testing", "Mid", "update", "refactor "
TitleFragments ==
    { <<"H", "o", "t">>,
      <<"f", "i", "x">>,
      <<":", " ", "f", "i", "x", " ", "l", "o", "g", "i", "n">>,
      <<"m", "v", "p">>,
      <<"t", "e", "s", "t", "i", "n", "g">>,
      <<"M", "i", "d">>,
      <<"u", "p", "d", "a", "t", "e">>,
      <<"r", "e", "f", "a", "c", "t", "o", "r", " ">> }

RECURSIVE Titles(_)
Titles(n) ==
    IF n = 0 THEN {<<>>}
    ELSE LET shorter == Titles(n - 1)
         IN  shorter \cup { t \o f : t \in shorter, f \in TitleFragments }

PRs ==
    [category : {"Bug_Fix", "Maintenance", "Chore", Absent},
     complexity : {"Small", "Medium", "Large", "Huge", Absent},
     title : Titles(MaxFragments)]

InitMetadata ==
    /\ pr \in PRs
    /\ metadata_estimate = NoResult
    /\ applied = NoResult
    /\ CommitsUnused
    /\ BusinessUnused
    /\ TimingUnused

\* process_pr_data_fallback: time_estimate = estimate_time_from_metadata(pr)
EstimateMetadata ==
    /\ metadata_estimate = NoResult
    /\ LET call == estimate_time_from_metadata(pr)
       IN  /\ metadata_estimate' = call.result
           /\ applied' = call.locals
    /\ UNCHANGED <<pr, commitVars, businessVars, timingVars>>

NextMetadata == EstimateMetadata

SpecMetadata == InitMetadata /\ [][NextMetadata]_vars

-----------------------------------------------------------------------------
(* scripts/estimate_pr_time.py *)

MAX_COMMIT_DIFF_MINUTES == 120
FIRST_COMMIT_BUFFER_MINUTES == 120

RECURSIVE Pow2(_)
Pow2(n) == IF n = 0 THEN 1 ELSE 2 * Pow2(n - 1)

\* floor(log2(num/den)) for num/den >= 1: the binary exponent of the float num/den
RECURSIVE Log2Floor(_, _, _)
Log2Floor(num, den, e) ==
    IF num >= 2 * den * Pow2(e) THEN Log2Floor(num, den, e + 1) ELSE e

\* 2^n mod 5, for n >= 0
Pow2Mod5(n) == <<1, 2, 4, 3>>[(n % 4) + 1]

\* round(total_minutes / 60, 1), in tenths of an hour, for total_minutes >= 60 a
\* whole number of minutes.  total_minutes / 60 is the IEEE double nearest to the
\* quotient and round() rounds that double correctly, so a quotient that lies
\* halfway between two tenths (total_minutes = 6q + 3) goes the way the double
\* nearest to it lies; when the halfway point is itself a double (k/4) the tie
\* goes to the even tenth.
RoundHours(total_minutes) ==
    LET q == total_minutes \div 6
        r == total_minutes % 6
        k == total_minutes \div 3
        E == Log2Floor(total_minutes, 60, 0)
        \* remainder of k * 2^(50-E) by 5: the double is the quotient rounded
        \* to 53 bits, above the halfway point iff the remainder is 3 or 4
        rem == ((k % 5) * Pow2Mod5(50 - E)) % 5
    IN  IF r < 3 THEN q
        ELSE IF r > 3 THEN q + 1
        ELSE IF k % 5 = 0 THEN (IF q % 2 = 0 THEN q ELSE q + 1)
        ELSE IF rem >= 3 THEN q + 1 ELSE q

\* list.sort(key=lambda c: c["timestamp"]): stable, ascending, in place
RECURSIVE InsertByTimestamp(_, _)
InsertByTimestamp(sorted, c) ==
    IF sorted = <<>> THEN <<c>>
    ELSE IF sorted[Len(sorted)].timestamp <= c.timestamp THEN Append(sorted, c)
    ELSE Append(InsertByTimestamp(SubSeq(sorted, 1, Len(sorted) - 1), c),
                sorted[Len(sorted)])

RECURSIVE SortFrom(_, _, _)
SortFrom(list, i, sorted) ==
    IF i > Len(list) THEN sorted
    ELSE SortFrom(list, i + 1, InsertByTimestamp(sorted, list[i]))

\* the list left in the order it was given
NoSort(list) == list

SortByTimestamp(list) == SortFrom(list, 1, <<>>)

\* the loop with "diff_minutes < MAX_COMMIT_DIFF_MINUTES"
RECURSIVE ProcessCommitsStrict(_, _, _, _)
ProcessCommitsStrict(list, i, total_minutes, sessions) ==
    IF i >= Len(list) THEN [total_minutes |-> total_minutes, sessions |-> sessions]
    ELSE LET diff_minutes == list[i + 1].timestamp - list[i].timestamp
         IN  IF diff_minutes < MAX_COMMIT_DIFF_MINUTES
             THEN ProcessCommitsStrict(list, i + 1, total_minutes + diff_minutes, sessions)
             ELSE ProcessCommitsStrict(list, i + 1,
                                       total_minutes + FIRST_COMMIT_BUFFER_MINUTES,
                                       sessions + 1)

\* the loop "for i in range(1, len(commits))", from index i (0-based) on
RECURSIVE ProcessCommits(_, _, _, _)
ProcessCommits(list, i, total_minutes, sessions) ==
    IF i >= Len(list) THEN [total_minutes |-> total_minutes, sessions |-> sessions]
    ELSE LET diff_minutes == list[i + 1].timestamp - list[i].timestamp
         IN  IF diff_minutes <= MAX_COMMIT_DIFF_MINUTES
             THEN ProcessCommits(list, i + 1, total_minutes + diff_minutes, sessions)
             ELSE ProcessCommits(list, i + 1,
                                 total_minutes + FIRST_COMMIT_BUFFER_MINUTES,
                                 sessions + 1)

\* estimate_time_from_commits without its early return for an empty list
EstimateAlwaysBuffered(list) ==
    LET sorted == SortByTimestamp(list)
        acc == ProcessCommits(sorted, 1, FIRST_COMMIT_BUFFER_MINUTES, 1)
    IN  [list |-> sorted,
         result |-> [estimated_hours |-> RoundHours(acc.total_minutes),
                     sessions |-> acc.sessions,
                     commits |-> Len(sorted)]]

\* estimate_time_from_commits reporting the number of gaps between commits as
\* the number of commits
EstimateCountingGaps(list) ==
    IF list = <<>>
    THEN [list |-> list,
          result |-> [estimated_hours |-> 0, sessions |-> 0, commits |-> 0]]
    ELSE LET sorted == SortByTimestamp(list)
             acc == ProcessCommits(sorted, 1, 0 + FIRST_COMMIT_BUFFER_MINUTES, 1)
         IN  [list |-> sorted,
              result |-> [estimated_hours |-> RoundHours(acc.total_minutes),
                          sessions |-> acc.sessions,
                          commits |-> Len(sorted) - 1]]

\* estimate_time_from_commits(list): the returned dict, and the list object as
\* the call leaves it
estimate_time_from_commits(list) ==
    IF list = <<>>
    THEN [list |-> list,
          result |-> [estimated_hours |-> 0, sessions |-> 0, commits |-> 0]]
    ELSE LET sorted == SortByTimestamp(list)
             acc == ProcessCommits(sorted, 1, 0 + FIRST_COMMIT_BUFFER_MINUTES, 1)
         IN  [list |-> sorted,
              result |-> [estimated_hours |-> RoundHours(acc.total_minutes),
                          sessions |-> acc.sessions,
                          commits |-> Len(sorted)]]

\* commit records as fetch_pr_commits builds them (author and message play no
\* part in the estimate); the sha tells records with equal timestamps apart
CommitLists ==
    UNION { { [i \in 1..n |-> [sha |-> i, timestamp |-> f[i]]] : f \in [1..n -> CommitTimes] }
            : n \in 0..MaxCommits }

Shuffles(list) ==
    { [i \in 1..Len(list) |-> list[p[i]]] : p \in Permutations(1..Len(list)) }

InitCommits ==
    /\ commits \in CommitLists
    /\ commits0 = commits
    /\ shuffled \in Shuffles(commits)
    /\ shuffled0 = shuffled
    /\ estimate = NoResult
    /\ estimate_shuffled = NoResult
    /\ BusinessUnused
    /\ TimingUnused
    /\ MetadataUnused

\* process_pr_data: time_estimate = estimate_time_from_commits(commits)
EstimateCommits ==
    /\ estimate = NoResult
    /\ LET call == estimate_time_from_commits(commits)
       IN  /\ commits' = call.list
           /\ estimate' = call.result
    /\ UNCHANGED <<commits0, shuffled, shuffled0, estimate_shuffled, businessVars, timingVars, metadataVars>>

\* the same call on the shuffled list
EstimateShuffled ==
    /\ estimate_shuffled = NoResult
    /\ LET call == estimate_time_from_commits(shuffled)
       IN  /\ shuffled' = call.list
           /\ estimate_shuffled' = call.result
    /\ UNCHANGED <<commits, commits0, shuffled0, estimate, businessVars, timingVars, metadataVars>>

NextCommits == EstimateCommits \/ EstimateShuffled

SpecCommits == InitCommits /\ [][NextCommits]_vars

-----------------------------------------------------------------------------
(* Properties of estimate_time_from_commits *)

\* the timestamps of a list in ascending order, by repeated selection of the least
RECURSIVE AscendingFrom(_, _)
AscendingFrom(list, left) ==
    IF left = {} THEN <<>>
    ELSE LET i == CHOOSE j \in left : \A k \in left : list[j].timestamp <= list[k].timestamp
         IN  <<list[i].timestamp>> \o AscendingFrom(list, left \ {i})

AscendingTimes(list) == AscendingFrom(list, DOMAIN list)

\* gaps between consecutive commits after the ascending sort
Gap(list, i) == AscendingTimes(list)[i + 1] - AscendingTimes(list)[i]

RECURSIVE SumOfSmallGaps(_, _)
SumOfSmallGaps(list, i) ==
    IF i >= Len(list) THEN 0
    ELSE (IF Gap(list, i) <= 120 THEN Gap(list, i) ELSE 0) + SumOfSmallGaps(list, i + 1)

LargeGaps(list) == { i \in 1..(Len(list) - 1) : Gap(list, i) > 120 }

Timestamps(list) == [i \in DOMAIN list |-> list[i].timestamp]

Returned == estimate # NoResult
ReturnedShuffled == estimate_shuffled # NoResult

\* C1: order independence: the estimate of a commit list and the estimate of any
\* permutation of it have the same estimated_hours, sessions and commits.
C1_OrderIndependence ==
    (Returned /\ ReturnedShuffled) => estimate = estimate_shuffled

\* C1 witness: both calls returned, on two different orders of three commits with
\* three different timestamps, the first of them not in ascending order
C1_Witness ==
    /\ Returned /\ ReturnedShuffled
    /\ Len(commits0) = 3
    /\ Timestamps(shuffled0) # Timestamps(commits0)
    /\ Timestamps(commits0) # AscendingTimes(commits0)
    /\ Cardinality({commits0[i].timestamp : i \in DOMAIN commits0}) = 3

\* C2: for a non-empty list, sessions = 1 + (number of sorted gaps > 120),
\* total minutes = 120 * sessions + (sum of the sorted gaps <= 120), and
\* estimated_hours is total minutes / 60 to the nearest tenth; a gap of exactly
\* 120 stays in the session; one commit gives 2.0 h and 1 session, two commits
\* 30 minutes apart 2.5 h and 1 session, two commits 200 minutes apart 4.0 h and
\* 2 sessions.
C2_SessionFormula ==
    (Returned /\ commits0 # <<>>) =>
        LET sessions == 1 + Cardinality(LargeGaps(commits0))
            total == 120 * sessions + SumOfSmallGaps(commits0, 1)
        IN  /\ estimate.sessions = sessions
            /\ 6 * estimate.estimated_hours - total \in -3..3
            /\ Len(commits0) = 1 =>
                   estimate.estimated_hours = 20 /\ estimate.sessions = 1
            /\ (Len(commits0) = 2 /\ Gap(commits0, 1) = 30) =>
                   estimate.estimated_hours = 25 /\ estimate.sessions = 1
            /\ (Len(commits0) = 2 /\ Gap(commits0, 1) = 200) =>
                   estimate.estimated_hours = 40 /\ estimate.sessions = 2
            /\ (Len(commits0) = 2 /\ Gap(commits0, 1) = 120) =>
                   estimate.estimated_hours = 40 /\ estimate.sessions = 1

\* C2 witness: three commits given out of order, with one sorted gap of exactly
\* 120 minutes and one above it
C2_Witness ==
    /\ Returned
    /\ Len(commits0) = 3
    /\ Timestamps(commits0) # AscendingTimes(commits0)
    /\ \E i \in 1..2 : Gap(commits0, i) = 120
    /\ \E i \in 1..2 : Gap(commits0, i) > 120

\* C3: the empty list gives estimated_hours = 0, sessions = 0 and commits = 0.
C3_EmptyGivesZeros ==
    (Returned /\ commits0 = <<>>) =>
        estimate = [estimated_hours |-> 0, sessions |-> 0, commits |-> 0]

\* C3 witness: the call on the empty list has returned
C3_Witness == Returned /\ commits0 = <<>>

\* C10: after estimate_time_from_commits returns, the caller's list holds the
\* same records in the same order as before the call.
C10_InputListUntouched == Returned => commits = commits0

-----------------------------------------------------------------------------
(* Properties of calculate_business_hours *)

BusinessReturned == business_hours # NoResult
SwappedReturned == swapped_hours # NoResult

Friday1800 == Datetime(4, 18 * 60, 0)
Monday0800 == Datetime(7, 8 * 60, 0)

\* C4: swap symmetry: calculate_business_hours(a, b) = calculate_business_hours(b, a).
C4_SwapSymmetry ==
    (BusinessReturned /\ SwappedReturned) => business_hours = swapped_hours

\* C4 witness: both calls returned, the first one was given its later instant
\* first, on an interval that counts some hours
C4_Witness ==
    /\ BusinessReturned /\ SwappedReturned
    /\ start_dt # None /\ end_dt # None
    /\ Earlier(end_dt, start_dt)
    /\ business_hours # ZeroHours

\* C5 as claimed: from Fri 18:00 to Mon 08:00 Friday adds 6 hours, Saturday and
\* Sunday add 0 each and Monday adds 1 hour.
C5_FridayAddsSixHours ==
    (BusinessReturned /\ start_dt = Friday1800 /\ end_dt = Monday0800) =>
        day_hours = << [date |-> 4, hours |-> Hours(6)],
                       [date |-> 5, hours |-> ZeroHours],
                       [date |-> 6, hours |-> ZeroHours],
                       [date |-> 7, hours |-> Hours(1)] >>

\* C5 amended: from Fri 18:00 to Mon 08:00 the Friday window is not extended
\* (18:00 is before 19:00), so Friday adds 1 hour (18:00-19:00), Saturday and
\* Sunday add 0 each, Monday adds 1 hour (07:00-08:00), and the total is 2 hours.
C5_FridayToMonday ==
    (BusinessReturned /\ start_dt = Friday1800 /\ end_dt = Monday0800) =>
        /\ day_hours = << [date |-> 4, hours |-> Hours(1)],
                          [date |-> 5, hours |-> ZeroHours],
                          [date |-> 6, hours |-> ZeroHours],
                          [date |-> 7, hours |-> Hours(1)] >>
        /\ business_hours = Hours(2)

\* C5 witness: the call on (Fri 18:00, Mon 08:00) has returned
C5_Witness == BusinessReturned /\ start_dt = Friday1800 /\ end_dt = Monday0800

\* C6 as claimed: calculate_business_hours(t, t) = 0 for every instant t.
C6_DegenerateIsZero ==
    (BusinessReturned /\ start_dt # None /\ start_dt = end_dt) =>
        business_hours = ZeroHours

\* C6 amended: calculate_business_hours(t, t) is 0 when t lies on a business
\* day, at any time of day, and the flat 4 hours when t lies on a weekend day.
C6_Degenerate ==
    (BusinessReturned /\ start_dt # None /\ start_dt = end_dt) =>
        business_hours = (IF is_business_day(start_dt) THEN ZeroHours ELSE Hours(4))

\* C6 witness: the call on (t, t) has returned, for t on a business day after 19:00
C6_Witness ==
    /\ BusinessReturned
    /\ start_dt # None /\ start_dt = end_dt
    /\ is_business_day(start_dt)
    /\ start_dt.minute > 19 * 60

-----------------------------------------------------------------------------
(* Properties of analyze_issue_timing *)

TimingReturned == timing # NoResult

\* some scanned event is a comment by somebody other than the issue's author
ResponseFound ==
    \E i \in DOMAIN scan.all_events :
        /\ scan.all_events[i].event \in {"commented", "comment"}
        /\ scan.all_events[i].actor # issue.user

\* some scanned event is an assignment
AssignmentFound ==
    \E i \in DOMAIN scan.all_events : scan.all_events[i].event = "assigned"

\* C7: time_to_first_response_hours (and likewise time_to_assignment_hours) is
\* null exactly when no matching event was found; with the anchor found and 0
\* business hours from created to the anchor, the metric is the number 0.
C7_NullOnlyWhenNoEvent ==
    TimingReturned =>
        /\ (timing.time_to_first_response_hours = None) <=> ~ResponseFound
        /\ (timing.time_to_assignment_hours = None) <=> ~AssignmentFound
        /\ (ResponseFound /\ scan.time_to_first_response = ZeroHours) =>
               timing.time_to_first_response_hours = Hundredths(0)
        /\ (AssignmentFound /\ scan.time_to_assignment = ZeroHours) =>
               timing.time_to_assignment_hours = Hundredths(0)

-----------------------------------------------------------------------------
(* Properties of estimate_time_from_metadata *)

MetadataReturned == metadata_estimate # NoResult

HotfixFixLogin == <<"H", "o", "t", "f", "i", "x", ":", " ", "f", "i", "x", " ", "l", "o", "g", "i", "n">>

\* C8 as claimed: every result of estimate_time_from_metadata is tagged
\* method = "metadata" and confidence = "low".
C8_TaggedMetadata ==
    MetadataReturned =>
        metadata_estimate.method = "metadata" /\ metadata_estimate.confidence = "low"

\* C8 amended: every result of estimate_time_from_metadata is tagged
\* method = "metadata_based" and confidence = "low".
C8_TaggedMetadataBased ==
    MetadataReturned =>
        /\ metadata_estimate.method = "metadata_based"
        /\ metadata_estimate.confidence = "low"

\* C8 witness: a result for a PR with no category, an unknown complexity and a
\* title that fires a rule
C8_Witness ==
    /\ MetadataReturned
    /\ pr.category = Absent
    /\ pr.complexity = "Huge"
    /\ applied.factors # <<>>

\* C9: the x0.9 multiplier is applied if and only if the lower-cased title
\* contains "fix" and does not contain "hotfix"; Bug_Fix, Small,
\* "Hotfix: fix login" gives estimated_hours = 4.0.
C9_HotfixExclusion ==
    MetadataReturned =>
        /\ (\E i \in DOMAIN applied.factors : applied.factors[i] = 9) <=>
               (/\ Contains(Lower(pr.title), FIX)
                /\ ~Contains(Lower(pr.title), HOTFIX))
        /\ (pr.category = "Bug_Fix" /\ pr.complexity = "Small"
                /\ pr.title = HotfixFixLogin) =>
               metadata_estimate.estimated_hours = 40

\* C9 witness: the estimate for Bug_Fix, Small, "Hotfix: fix login"
C9_Witness ==
    /\ MetadataReturned
    /\ pr.category = "Bug_Fix"
    /\ pr.complexity = "Small"
    /\ pr.title = HotfixFixLogin


Monday0700 == Datetime(0, 7 * 60, 0)
Monday1900 == Datetime(0, 19 * 60, 0)

\* 07:00 <= dt <= 19:00 on the day of dt
InsideWindow(dt) ==
    /\ ~Earlier(dt, ReplaceTime(dt, 7, 0, 0, 0))
    /\ ~Earlier(ReplaceTime(dt, 19, 0, 0, 0), dt)

\* C11: same-day business interval: for start <= end on the same business day,
\* both inside 07:00..19:00, calculate_business_hours returns exactly the
\* elapsed time end - start; from Mon 07:00 to Mon 19:00 it returns 12 hours.
C11_SameDayInterval ==
    /\ (/\ BusinessReturned
        /\ start_dt # None /\ end_dt # None
        /\ start_dt.date = end_dt.date
        /\ is_business_day(start_dt)
        /\ ~Earlier(end_dt, start_dt)
        /\ InsideWindow(start_dt) /\ InsideWindow(end_dt))
       => business_hours = Elapsed(start_dt, end_dt)
    /\ (BusinessReturned /\ start_dt = Monday0700 /\ end_dt = Monday1900)
       => business_hours = Hours(12)

\* C11 witness: the call on (Mon 07:00, Mon 19:00) has returned
C11_Witness == BusinessReturned /\ start_dt = Monday0700 /\ end_dt = Monday1900


\* x <= y on durations
AtMost(x, y) == x.minutes < y.minutes \/ (x.minutes = y.minutes /\ x.micro <= y.micro)

\* the number of calendar days from the earlier date to the later one, inclusive
CalendarDays ==
    IF start_dt.date <= end_dt.date THEN end_dt.date - start_dt.date + 1
    ELSE start_dt.date - end_dt.date + 1

FirstDt == IF Earlier(end_dt, start_dt) THEN end_dt ELSE start_dt
LastDt == IF Earlier(end_dt, start_dt) THEN start_dt ELSE end_dt

SevenAm(dt) == ReplaceTime(dt, 7, 0, 0, 0)
SevenPm(dt) == ReplaceTime(dt, 19, 0, 0, 0)
EndOfDay(dt) == ReplaceTime(dt, 23, 59, 59, 999999)

\* the part of the span that lies on its first day, from the start on, and the
\* part that lies on its last day and after 07:00, up to the end
FromStartOn ==
    IF FirstDt.date = LastDt.date
    THEN Elapsed(FirstDt, IF Earlier(LastDt, EndOfDay(FirstDt)) THEN LastDt ELSE EndOfDay(FirstDt))
    ELSE Elapsed(FirstDt, EndOfDay(FirstDt))
UpToEnd ==
    IF FirstDt.date = LastDt.date /\ Earlier(SevenAm(LastDt), FirstDt)
    THEN Elapsed(FirstDt, LastDt)
    ELSE Elapsed(SevenAm(LastDt), LastDt)

\* C15: late-work window extension: on a boundary day that is a business day,
\* when the boundary instant (the start on the first day of the span, the end on
\* its last day) falls at or after 19:00, the window of that day ends at
\* 23:59:59.999999 instead of 19:00, so that the time after 19:00 up to that
\* instant is counted: the first day adds the time from the start on, the last
\* day adds the time from the start of its window up to the end.
C15_LateWorkExtension ==
    (BusinessReturned /\ start_dt # None /\ end_dt # None) =>
        /\ (is_business_day(FirstDt) /\ ~Earlier(FirstDt, SevenPm(FirstDt))) =>
               day_hours[1].hours = FromStartOn
        /\ (is_business_day(LastDt) /\ ~Earlier(LastDt, SevenPm(LastDt))) =>
               day_hours[Len(day_hours)].hours = UpToEnd

Weekend(date) == date % 7 \in {5, 6}

\* C16: weekend accounting: a Saturday or Sunday in the span adds 0 hours unless
\* its date is the start date or the end date, and then it adds a flat 4 hours,
\* once, however much of the day the interval covers.
C16_WeekendAccounting ==
    (BusinessReturned /\ start_dt # None /\ end_dt # None) =>
        /\ Len(day_hours) = LastDt.date - FirstDt.date + 1
        /\ \A i \in DOMAIN day_hours :
               /\ day_hours[i].date = FirstDt.date + i - 1
               /\ Weekend(day_hours[i].date) =>
                      day_hours[i].hours =
                          (IF day_hours[i].date \in {FirstDt.date, LastDt.date}
                           THEN Hours(4) ELSE ZeroHours)
        /\ (FirstDt.date = LastDt.date /\ Weekend(FirstDt.date)) =>
               business_hours = Hours(4)

\* C16 witness: the call has returned for a span that starts on a Saturday and
\* ends on the Monday after it: one weekend day on the boundary, one inside
C16_Witness ==
    /\ BusinessReturned /\ start_dt # None /\ end_dt # None
    /\ FirstDt.date % 7 = 5 /\ LastDt.date = FirstDt.date + 2

LaterReturned == later_hours # NoResult

\* C20 as claimed: monotonicity in the end of the interval: for a fixed start and
\* end1 <= end2 with start <= end1, calculate_business_hours(start, end1) <=
\* calculate_business_hours(start, end2).
C20_MonotoneInEnd ==
    (BusinessReturned /\ LaterReturned) => AtMost(business_hours, later_hours)

\* C20 amended: for a fixed start and end1 <= end2 with start <= end1,
\* calculate_business_hours(start, end1) <= calculate_business_hours(start, end2)
\* whenever end1 does not fall on a Saturday or Sunday, or falls on the date of
\* the start or on the date of end2.  (When end1 falls on a weekend day that is
\* neither, that day adds its flat 4 hours for end1 and nothing for end2.)
C20_MonotoneOffWeekendEnd ==
    (/\ BusinessReturned /\ LaterReturned
     /\ \/ ~Weekend(end_dt.date)
        \/ end_dt.date = start_dt.date
        \/ end_dt.date = later_dt.date)
    => AtMost(business_hours, later_hours)

\* C20 witness: both calls have returned, the first end lies on a business day
\* after the day of the start, the second end on a later day, and the second
\* call counts more hours than the first
C20_Witness ==
    /\ BusinessReturned /\ LaterReturned
    /\ ~Weekend(end_dt.date)
    /\ start_dt.date < end_dt.date /\ end_dt.date < later_dt.date
    /\ business_hours # later_hours

-----------------------------------------------------------------------------
(* Bounds on the result of estimate_time_from_commits *)

\* C12: session count bounds: for a non-empty commit list the result has
\* 1 <= sessions <= commits, and commits is the length of the input list.
C12_SessionBounds ==
    (Returned /\ commits0 # <<>>) =>
        /\ 1 <= estimate.sessions
        /\ estimate.sessions <= estimate.commits
        /\ estimate.commits = Len(commits0)

\* C12 witness: a call on three commits has returned with the upper bound met,
\* every commit in a session of its own
C12_Witness == Returned /\ Len(commits0) = 3 /\ estimate.sessions = 3


-----------------------------------------------------------------------------
(* Lookup and multipliers of estimate_time_from_metadata *)

Complexities == {"Small", "Medium", "Large"}

\* a key that is present, with a value the table does not hold
UnrecognizedCategory == pr.category # Absent /\ pr.category \notin DOMAIN DEFAULT_DEV_HOURS
UnrecognizedComplexity == pr.complexity # Absent /\ pr.complexity \notin Complexities

\* C14: fallback defaults never fail: an unrecognized category uses the
\* Maintenance row of the lookup table, an unrecognized complexity within the
\* chosen row uses 6 base hours, and in every such case an estimate is returned.
C14_FallbackDefaults ==
    (MetadataReturned /\ (UnrecognizedCategory \/ UnrecognizedComplexity)) =>
        /\ (UnrecognizedCategory /\ pr.complexity \in Complexities) =>
               applied.base_hours = DEFAULT_DEV_HOURS["Maintenance"][pr.complexity]
        /\ UnrecognizedComplexity => applied.base_hours = 6
        /\ metadata_estimate.estimated_hours > 0
        /\ metadata_estimate.sessions >= 1
        /\ metadata_estimate.commits >= 1

\* C14 witness: the call has returned for a category and a complexity that the
\* table does not hold
C14_Witness == MetadataReturned /\ UnrecognizedCategory /\ UnrecognizedComplexity


\* the six rules by their place in the code, the factor of each in tenths, and
\* whether the keyword of a rule occurs in the title, whatever its case
Rules == 1..6
Factor == <<12, 11, 9, 11, 13, 7>>
KeywordOccurs(rule, title) ==
    CASE rule = 1 -> Contains(title, REFACTOR) \/ Contains(title, RESTRUCTURE)
      [] rule = 2 -> Contains(title, TEST) \/ Contains(title, TESTING)
      [] rule = 3 -> Contains(title, FIX) /\ ~Contains(title, HOTFIX)
      [] rule = 4 -> Contains(title, UPDATE) \/ Contains(title, ENHANCE)
      [] rule = 5 -> Contains(title, MVP)
      [] rule = 6 -> Contains(title, WORKING) \/ Contains(title, MID)
RulesThatApply ==
    LET title == Lower(pr.title)
    IN  { rule \in Rules : KeywordOccurs(rule, title) }

\* the factors of the rules of a set, from a rule on, in the order of the code
RECURSIVE FactorsFrom(_, _)
FactorsFrom(rule, rules) ==
    IF rule > 6 THEN <<>>
    ELSE IF rule \in rules THEN <<Factor[rule]>> \o FactorsFrom(rule + 1, rules)
    ELSE FactorsFrom(rule + 1, rules)

\* every order in which the rules of a set can be evaluated
Orders(rules) ==
    { order \in [1..Cardinality(rules) -> rules] :
        \A i, j \in DOMAIN order : order[i] = order[j] => i = j }

\* the factors of the rules multiplied together from place i of an order on, as
\* num / den
RECURSIVE ProductFrom(_, _)
ProductFrom(order, i) ==
    IF i > Len(order) THEN [num |-> 1, den |-> 1]
    ELSE LET rest == ProductFrom(order, i + 1)
         IN  [num |-> Factor[order[i]] * rest.num, den |-> 10 * rest.den]

\* tenths is base * product rounded to 1 decimal: no tenth lies nearer
RoundedProduct(tenths, base, product) ==
    LET exact == 10 * base * product.num
        held == tenths * product.den
    IN  /\ 2 * (held - exact) <= product.den
        /\ 2 * (exact - held) <= product.den

\* C19: compounding multipliers: estimated_hours = round(base * product, 1),
\* where product multiplies together the factor of every rule whose keyword
\* occurs in the title as a substring, whatever its case (refactor|restructure
\* 1.2, test|testing 1.1, fix without hotfix 0.9, update|enhance 1.1, mvp 1.3,
\* working|mid 0.7); each rule gives its factor at most once, and the result is
\* the same in whatever order the rules are evaluated.
C19_CompoundingMultipliers ==
    MetadataReturned =>
        LET rules == RulesThatApply
        IN  /\ applied.factors = FactorsFrom(1, rules)
            /\ \A order \in Orders(rules) :
                   RoundedProduct(metadata_estimate.estimated_hours, applied.base_hours,
                                  ProductFrom(order, 1))

\* C19 witness: the call has returned for a title that holds both keywords of
\* one rule ("test" and "testing") and the keywords of two more rules
C19_Witness ==
    /\ MetadataReturned
    /\ Contains(Lower(pr.title), TEST) /\ Contains(Lower(pr.title), TESTING)
    /\ Cardinality(RulesThatApply) = 3


-----------------------------------------------------------------------------
(* Event scan and event feeds of analyze_issue_timing *)

\* the places, in the scanned sequence, of the comments by somebody other than
\* the author of the issue, and of the assignments
ResponsePlaces ==
    { i \in DOMAIN scan.all_events :
        /\ scan.all_events[i].event \in {"commented", "comment"}
        /\ scan.all_events[i].actor # issue.user }
AssignmentPlaces ==
    { i \in DOMAIN scan.all_events : scan.all_events[i].event = "assigned" }

Least(places) == CHOOSE i \in places : \A j \in places : i <= j

\* the timestamp of the first event among some places, None when there is none
FirstTimestamp(places) ==
    IF places = {} THEN None
    ELSE parse_github_datetime(scan.all_events[Least(places)].created_at)

\* C17: single-pass anchor extraction: over the event sequence in occurrence
\* order, firstResponse is the timestamp of the first comment event whose actor
\* differs from the issue's author (a comment by the author is never recorded,
\* later matching comments do not overwrite it), and assignedAt is the
\* timestamp of the first assignment event.
C17_AnchorExtraction ==
    TimingReturned =>
        /\ scan.first_response = FirstTimestamp(ResponsePlaces)
        /\ scan.assigned_at = FirstTimestamp(AssignmentPlaces)

\* C17 witness: the call has returned after a scan of two comments by somebody
\* other than the author, the second with another timestamp than the first
C17_Witness ==
    /\ TimingReturned
    /\ ResponsePlaces = {1, 2}
    /\ scan.all_events[1].created_at # scan.all_events[2].created_at


\* the pages of a feed that get requested: each one after full pages answered 200
RequestedPages(answers) ==
    { i \in DOMAIN answers :
        \A j \in 1..(i - 1) : answers[j].status = 200 /\ Len(answers[j].data) = per_page }

\* the feed is unavailable: some requested page is answered with 403 or 404
Unavailable(answers) ==
    \E i \in RequestedPages(answers) : answers[i].status \in {403, 404}

\* the events on the requested pages, from a page on, in page order
RECURSIVE ListedFrom(_, _)
ListedFrom(answers, i) ==
    IF i \in RequestedPages(answers) THEN answers[i].data \o ListedFrom(answers, i + 1)
    ELSE <<>>

\* what a feed counts as: empty when unavailable, else the events it lists
Feed(answers) == IF Unavailable(answers) THEN <<>> ELSE ListedFrom(answers, 1)

\* C18 as claimed: two-tier event feed: the secondary feed (issue events) is
\* fetched and scanned only when the primary feed (timeline) is unavailable,
\* where a 403 or 404 on any page makes the whole primary feed count as empty;
\* the events of the two feeds are never mixed; and when both feeds are empty,
\* time_to_first_response_hours and time_to_assignment_hours are both null.
C18_SecondaryOnlyWhenUnavailable ==
    TimingReturned =>
        /\ scan.events_fetched => Unavailable(timeline_response)
        /\ scan.timeline = Feed(timeline_response)
        /\ scan.all_events \in {Feed(timeline_response), Feed(events_response)}
        /\ (Feed(timeline_response) = <<>> /\ Feed(events_response) = <<>>) =>
               /\ timing.time_to_first_response_hours = None
               /\ timing.time_to_assignment_hours = None

\* C18 amended: the secondary feed (issue events) is fetched and scanned exactly
\* when the primary feed (timeline) yields no events: because it is unavailable,
\* a 403 or 404 on any page making the whole feed count as empty, or because it
\* is available and lists no event.  The events scanned are those of the
\* primary feed when it yields any and those of the secondary feed otherwise,
\* never a mix; when both feeds are empty, time_to_first_response_hours and
\* time_to_assignment_hours are both null.
C18_SecondaryWhenPrimaryEmpty ==
    TimingReturned =>
        /\ scan.events_fetched <=> Feed(timeline_response) = <<>>
        /\ scan.timeline = Feed(timeline_response)
        /\ scan.all_events = (IF Feed(timeline_response) # <<>>
                              THEN Feed(timeline_response)
                              ELSE Feed(events_response))
        /\ (Feed(timeline_response) = <<>> /\ Feed(events_response) = <<>>) =>
               /\ timing.time_to_first_response_hours = None
               /\ timing.time_to_assignment_hours = None

\* C18 witness: the call has returned after a full first page of the timeline,
\* a second page answered with 403 or 404, and a scan of the secondary feed
C18_Witness ==
    /\ TimingReturned
    /\ Len(timeline_response) = 2
    /\ timeline_response[2].status \in {403, 404}
    /\ scan.events_fetched
    /\ scan.all_events # <<>>

====
